---------------------------- MODULE Spec2Model ----------------------------
(***************************************************************************)
(* A model of encfs/main.cpp: the command-line processing (processArgs),   *)
(* the FUSE init callback (encfs_init), the serve driver and teardown in   *)
(* main, and the idle monitoring thread (idleMonitor).                     *)
(*                                                                         *)
(* C strings are sequences of one-character strings; a char* slot is       *)
(* either NullPtr or Ptr(s).                                               *)
(***************************************************************************)
EXTENDS Integers, Sequences, FiniteSets, TLC

NullPtr == <<>>
Ptr(s) == <<s>>

\* Maximum number of arguments passed on to fuse.
MaxFuseArgs == 32

\* String literals that the program pushes onto the fuse argument vector.
Lit_f == <<"-","f">>
Lit_d == <<"-","d">>
Lit_s == <<"-","s">>
Lit_o == <<"-","o">>
Lit_use_ino == <<"u","s","e","_","i","n","o">>
Lit_default_permissions == <<"d","e","f","a","u","l","t","_","p","e","r","m","i","s","s","i","o","n","s">>
Lit_allow_other == <<"a","l","l","o","w","_","o","t","h","e","r">>
Lit_attr_timeout == <<"-","o","a","t","t","r","_","t","i","m","e","o","u","t","=","0">>
Lit_entry_timeout == <<"-","o","e","n","t","r","y","_","t","i","m","e","o","u","t","=","0">>
Lit_encfs == <<"e","n","c","f","s">>

(***************************************************************************)
(* getopt_long, as called by processArgs: GNU permuting mode, option       *)
(* string "HsSfvdmEi:o:t:c:u" and the long_options table.                  *)
(***************************************************************************)
ShortNoArg == {"H", "s", "S", "f", "v", "d", "m", "E", "u"}
ShortWithArg == {"i", "o", "t", "c"}

long_options ==
    {
      [name |-> <<"f","u","s","e","-","d","e","b","u","g">>, has_arg |-> 0, val |-> "d"],
      [name |-> <<"f","o","r","c","e","d","e","c","o","d","e">>, has_arg |-> 0, val |-> "D"],
      [name |-> <<"f","u","s","e","-","h","e","l","p">>, has_arg |-> 0, val |-> "H"],
      [name |-> <<"i","d","l","e">>, has_arg |-> 1, val |-> "i"],
      [name |-> <<"a","n","y","k","e","y">>, has_arg |-> 0, val |-> "k"],
      [name |-> <<"n","o","-","d","e","f","a","u","l","t","-","f","l","a","g","s">>, has_arg |-> 0, val |-> "N"],
      [name |-> <<"o","n","d","e","m","a","n","d">>, has_arg |-> 0, val |-> "m"],
      [name |-> <<"d","e","l","a","y","m","o","u","n","t">>, has_arg |-> 0, val |-> "M"],
      [name |-> <<"p","u","b","l","i","c">>, has_arg |-> 0, val |-> "P"],
      [name |-> <<"e","x","t","p","a","s","s">>, has_arg |-> 1, val |-> "p"],
      [name |-> <<"s","t","d","i","n","p","a","s","s">>, has_arg |-> 0, val |-> "S"],
      [name |-> <<"s","y","s","l","o","g","t","a","g">>, has_arg |-> 1, val |-> "t"],
      [name |-> <<"a","n","n","o","t","a","t","e">>, has_arg |-> 0, val |-> "LONG_OPT_ANNOTATE"],
      [name |-> <<"n","o","c","a","c","h","e">>, has_arg |-> 0, val |-> "LONG_OPT_NOCACHE"],
      [name |-> <<"n","o","d","a","t","a","c","a","c","h","e">>, has_arg |-> 0, val |-> "LONG_OPT_NODATACACHE"],
      [name |-> <<"n","o","a","t","t","r","c","a","c","h","e">>, has_arg |-> 0, val |-> "LONG_OPT_NOATTRCACHE"],
      [name |-> <<"v","e","r","b","o","s","e">>, has_arg |-> 0, val |-> "v"],
      [name |-> <<"v","e","r","s","i","o","n">>, has_arg |-> 0, val |-> "V"],
      [name |-> <<"r","e","v","e","r","s","e">>, has_arg |-> 0, val |-> "r"],
      [name |-> <<"r","e","v","e","r","s","e","w","r","i","t","e">>, has_arg |-> 0, val |-> "R"],
      [name |-> <<"s","t","a","n","d","a","r","d">>, has_arg |-> 0, val |-> "1"],
      [name |-> <<"p","a","r","a","n","o","i","a">>, has_arg |-> 0, val |-> "2"],
      [name |-> <<"r","e","q","u","i","r","e","-","m","a","c","s">>, has_arg |-> 0, val |-> "LONG_OPT_REQUIRE_MAC"],
      [name |-> <<"i","n","s","e","c","u","r","e">>, has_arg |-> 0, val |-> "LONG_OPT_INSECURE"],
      [name |-> <<"c","o","n","f","i","g">>, has_arg |-> 1, val |-> "c"],
      [name |-> <<"u","n","m","o","u","n","t">>, has_arg |-> 1, val |-> "u"]
    }

IsPrefix(p, s) == Len(p) <= Len(s) /\ SubSeq(s, 1, Len(p)) = p

\* Index of the first "=" of a, or Len(a)+1 when there is none.
EqPos(a) ==
    IF \E k \in 1..Len(a) : a[k] = "="
    THEN CHOOSE k \in 1..Len(a) : a[k] = "=" /\ \A m \in 1..(k-1) : a[m] # "="
    ELSE Len(a) + 1

\* The long option a name selects: an exact match, or else the only entry it
\* abbreviates; NoOpt when there is none or the abbreviation is ambiguous.
NoOpt == [name |-> <<>>, has_arg |-> 0, val |-> "?"]
LongMatch(name) ==
    LET exact == {o \in long_options : o.name = name}
        pfx == {o \in long_options : IsPrefix(name, o.name)}
    IN  IF exact # {} THEN CHOOSE o \in exact : TRUE
        ELSE IF Cardinality(pfx) = 1 THEN CHOOSE o \in pfx : TRUE
        ELSE NoOpt

IsOptionElement(a) == Len(a) >= 2 /\ a[1] = "-" /\ a # <<"-", "-">>

\* One call of getopt_long with the scan at element i of argv (argv[1] is the
\* program name) and, inside a cluster of short options, at character j
\* (j = 0: at the start of an element).  kind is "opt" (res is the value
\* returned, optarg the argument), "nonopt" (a positional, skipped by the
\* permutation) or "end" (the "--" element).  ni, nj: where the scan resumes.
GetoptLong(argv, i, j) ==
    LET a == argv[i]
        n == Len(a)
        G(kind, res, optarg, ni, nj) ==
            [kind |-> kind, res |-> res, optarg |-> optarg, ni |-> ni, nj |-> nj]
    IN
    IF j = 0 /\ a = <<"-", "-">> THEN G("end", "", <<>>, i + 1, 0)
    ELSE IF j = 0 /\ ~IsOptionElement(a) THEN G("nonopt", "", <<>>, i + 1, 0)
    ELSE IF j = 0 /\ a[2] = "-" THEN
        \* a long option, --name or --name=value
        LET eq == EqPos(a)
            o == LongMatch(SubSeq(a, 3, eq - 1))
        IN  IF o.val = "?" THEN G("opt", "?", <<>>, i + 1, 0)
            ELSE IF o.has_arg = 0 THEN
                IF eq <= n THEN G("opt", "?", <<>>, i + 1, 0)
                ELSE G("opt", o.val, <<>>, i + 1, 0)
            ELSE IF eq <= n THEN G("opt", o.val, SubSeq(a, eq + 1, n), i + 1, 0)
            ELSE IF i + 1 <= Len(argv) THEN G("opt", o.val, argv[i + 1], i + 2, 0)
            ELSE G("opt", "?", <<>>, i + 1, 0)
    ELSE
        \* a short option inside the cluster -abc
        LET jj == IF j = 0 THEN 2 ELSE j
            c == a[jj]
            ni == IF jj = n THEN i + 1 ELSE i
            nj == IF jj = n THEN 0 ELSE jj + 1
        IN  IF c \in ShortNoArg THEN G("opt", c, <<>>, ni, nj)
            ELSE IF c \in ShortWithArg THEN
                IF jj < n THEN G("opt", c, SubSeq(a, jj + 1, n), i + 1, 0)
                ELSE IF i + 1 <= Len(argv) THEN G("opt", c, argv[i + 1], i + 2, 0)
                ELSE G("opt", "?", <<>>, i + 1, 0)
            ELSE G("opt", "?", <<>>, ni, nj)

(***************************************************************************)
(* strtol(s, nullptr, 10): an optional sign, then the longest run of       *)
(* decimal digits; 0 when there is no digit.                               *)
(***************************************************************************)
Digits == {"0", "1", "2", "3", "4", "5", "6", "7", "8", "9"}
DigitVal(c) ==
    CASE c = "0" -> 0 [] c = "1" -> 1 [] c = "2" -> 2 [] c = "3" -> 3
      [] c = "4" -> 4 [] c = "5" -> 5 [] c = "6" -> 6 [] c = "7" -> 7
      [] c = "8" -> 8 [] c = "9" -> 9

RECURSIVE StrtolDigits(_, _, _)
StrtolDigits(s, k, acc) ==
    IF k > Len(s) \/ s[k] \notin Digits THEN acc
    ELSE StrtolDigits(s, k + 1, acc * 10 + DigitVal(s[k]))

Strtol(s) ==
    IF Len(s) >= 1 /\ s[1] = "-" THEN 0 - StrtolDigits(s, 2, 0)
    ELSE IF Len(s) >= 1 /\ s[1] = "+" THEN StrtolDigits(s, 2, 0)
    ELSE StrtolDigits(s, 1, 0)

(***************************************************************************)
(* EncFS_Args / EncFS_Opts and processArgs.                                *)
(***************************************************************************)
\* The fields of EncFS_Opts that processArgs does not assign before reading
\* them keep the values its constructor gives them.
EncFS_Opts ==
    [idleTracking |-> FALSE, checkKey |-> TRUE, forceDecode |-> FALSE,
     ownerCreate |-> FALSE, useStdin |-> FALSE, useEnv |-> FALSE,
     annotate |-> FALSE, reverseEncryption |-> FALSE, requireMac |-> FALSE,
     insecure |-> FALSE, unmount |-> FALSE, readOnly |-> FALSE,
     noCache |-> FALSE, mountOnDemand |-> FALSE, delayMount |-> FALSE,
     configMode |-> "Config_Prompt", config |-> <<>>,
     passwordProgram |-> <<>>, rootDir |-> <<>>, mountPoint |-> <<>>,
     unmountPoint |-> <<>>]

\* new EncFS_Args, with main's loop that nulls every fuseArgv slot.  ctl is
\* the control state of the call that fills it: "run", "assert" (an rAssert
\* failed and control left processArgs) or "exit" (exit(EXIT_SUCCESS)).
EncFS_Args ==
    [ctl |-> "run", isDaemon |-> FALSE, isThreaded |-> FALSE,
     isVerbose |-> FALSE, idleTimeout |-> 0,
     fuseArgv |-> [k \in 0..(MaxFuseArgs - 1) |-> NullPtr], fuseArgc |-> 0,
     syslogTag |-> <<>>, useDefaultFlags |-> TRUE, opts |-> EncFS_Opts]

\* rAssert(cond): on failure control leaves the enclosing function.
rAssert(cond, out) == IF cond THEN out ELSE [out EXCEPT !.ctl = "assert"]

PUSHARG(out, ARG) ==
    IF out.ctl # "run" THEN out
    ELSE LET a == rAssert(out.fuseArgc < MaxFuseArgs, out) IN
         IF a.ctl # "run" THEN a
         ELSE [a EXCEPT !.fuseArgv[a.fuseArgc] = Ptr(ARG), !.fuseArgc = @ + 1]

\* The text after the last "/" of a path.
RECURSIVE lastPathElement(_)
lastPathElement(path) ==
    IF \E k \in 1..Len(path) : path[k] = "/"
    THEN lastPathElement(SubSeq(path,
             (CHOOSE k \in 1..Len(path) : path[k] = "/") + 1, Len(path)))
    ELSE path

isAbsolutePath(path) == Len(path) >= 1 /\ path[1] = "/"

slashTerminate(src) ==
    IF src[Len(src)] # "/" THEN Append(src, "/") ELSE src

\* Lines 215-243: the defaults, the program name in slot 0, and slot 1 kept
\* for the mount point.
SetDefaults(argv, out) ==
    [out EXCEPT !.isDaemon = TRUE, !.isThreaded = TRUE, !.isVerbose = FALSE,
                !.idleTimeout = 0, !.syslogTag = Lit_encfs,
                !.useDefaultFlags = TRUE,
                !.opts.idleTracking = FALSE, !.opts.checkKey = TRUE,
                !.opts.forceDecode = FALSE, !.opts.ownerCreate = FALSE,
                !.opts.useStdin = FALSE, !.opts.useEnv = FALSE,
                !.opts.annotate = FALSE, !.opts.reverseEncryption = FALSE,
                !.opts.requireMac = FALSE, !.opts.insecure = FALSE,
                !.opts.unmount = FALSE,
                !.fuseArgv[0] = Ptr(lastPathElement(argv[1])),
                !.fuseArgv[1] = NullPtr,
                !.fuseArgc = 2]

\* An option that getopt_long does not know ends the call with false.
UnknownOptionFails(out) == [out EXCEPT !.ctl = "false"]

\* Lines 457-465: case '?', case ':' and default break out of the switch;
\* the scan goes on with the next element.
UnknownOption(out) == out

\* The data cache option made to turn the kernel caches off as well.
NoDataCacheAndAttr(out) ==
    PUSHARG(PUSHARG([out EXCEPT !.opts.noCache = TRUE], Lit_attr_timeout),
            Lit_entry_timeout)

\* Lines 405-407: case LONG_OPT_NODATACACHE.
NoDataCache(out) == [out EXCEPT !.opts.noCache = TRUE]

\* The body of the switch for one value returned by getopt_long.
OptionSwitch(out, res, optarg, euid) ==
    CASE res = "1" -> [out EXCEPT !.opts.configMode = "Config_Standard"]
      [] res = "2" -> [out EXCEPT !.opts.configMode = "Config_Paranoia"]
      [] res = "s" -> [out EXCEPT !.isThreaded = FALSE]
      [] res = "S" -> [out EXCEPT !.opts.useStdin = TRUE]
      [] res = "E" -> [out EXCEPT !.opts.useEnv = TRUE]
      [] res = "t" -> [out EXCEPT !.syslogTag = optarg]
      [] res = "LONG_OPT_ANNOTATE" -> [out EXCEPT !.opts.annotate = TRUE]
      [] res = "LONG_OPT_REQUIRE_MAC" -> [out EXCEPT !.opts.requireMac = TRUE]
      [] res = "LONG_OPT_INSECURE" -> [out EXCEPT !.opts.insecure = TRUE]
      [] res = "c" -> [out EXCEPT !.opts.config = optarg]
      [] res = "u" -> [out EXCEPT !.isDaemon = FALSE, !.opts.unmount = TRUE]
      [] res = "f" -> PUSHARG([out EXCEPT !.isDaemon = FALSE], Lit_f)
      [] res = "v" -> [out EXCEPT !.isVerbose = TRUE]
      [] res = "d" -> PUSHARG(out, Lit_d)
      [] res = "i" -> [out EXCEPT !.idleTimeout = Strtol(optarg),
                                  !.opts.idleTracking = TRUE]
      [] res = "k" -> [out EXCEPT !.opts.checkKey = FALSE]
      [] res = "D" -> [out EXCEPT !.opts.forceDecode = TRUE]
      [] res = "r" -> [out EXCEPT !.opts.reverseEncryption = TRUE,
                                  !.opts.readOnly = TRUE]
      [] res = "R" -> [out EXCEPT !.opts.reverseEncryption = TRUE,
                                  !.opts.readOnly = FALSE]
      [] res = "LONG_OPT_NOCACHE" ->
            PUSHARG(PUSHARG([out EXCEPT !.opts.noCache = TRUE],
                            Lit_attr_timeout), Lit_entry_timeout)
      [] res = "LONG_OPT_NODATACACHE" -> NoDataCache(out)
      [] res = "LONG_OPT_NOATTRCACHE" ->
            PUSHARG(PUSHARG(out, Lit_attr_timeout), Lit_entry_timeout)
      [] res = "m" -> [out EXCEPT !.opts.mountOnDemand = TRUE]
      [] res = "M" -> [out EXCEPT !.opts.delayMount = TRUE]
      [] res = "N" -> [out EXCEPT !.useDefaultFlags = FALSE]
      [] res = "o" -> PUSHARG(PUSHARG(out, Lit_o), optarg)
      [] res = "p" -> [out EXCEPT !.opts.passwordProgram = optarg]
      [] res = "P" ->
            IF euid # 0 THEN out
            ELSE PUSHARG(PUSHARG([out EXCEPT !.opts.ownerCreate = TRUE],
                                 Lit_o), Lit_allow_other)
      [] res = "V" -> [out EXCEPT !.ctl = "exit"]
      [] res = "H" -> [out EXCEPT !.ctl = "exit"]
      [] OTHER -> UnknownOption(out)

\* The while (true) loop around getopt_long.  pos collects the elements that
\* are not options: argv[optind .. argc-1] once getopt_long has returned -1.
RECURSIVE GetoptLoop(_, _, _, _, _, _)
GetoptLoop(argv, i, j, pos, out, euid) ==
    IF out.ctl # "run" \/ i > Len(argv) THEN [out |-> out, pos |-> pos]
    ELSE LET g == GetoptLong(argv, i, j) IN
         CASE g.kind = "end" ->
                [out |-> out, pos |-> pos \o SubSeq(argv, i + 1, Len(argv))]
           [] g.kind = "nonopt" ->
                GetoptLoop(argv, g.ni, 0, Append(pos, argv[i]), out, euid)
           [] OTHER ->
                GetoptLoop(argv, g.ni, g.nj, pos,
                           OptionSwitch(out, g.res, g.optarg, euid), euid)

\* Lines 501-510: the positionals that remain go to FUSE.
RECURSIVE PushExtra(_, _, _)
PushExtra(out, pos, k) ==
    IF out.ctl # "run" \/ k > Len(pos) THEN out
    ELSE LET a == rAssert(out.fuseArgc < MaxFuseArgs, out) IN
         IF a.ctl # "run" THEN a
         ELSE PushExtra([a EXCEPT !.fuseArgv[a.fuseArgc] = Ptr(pos[k]),
                                  !.fuseArgc = @ + 1], pos, k + 1)

\* The default flags pushed whatever useDefaultFlags says.
PushDefaultFlagsAlways(out) ==
    PUSHARG(PUSHARG(PUSHARG(PUSHARG(out, Lit_o), Lit_use_ino),
                    Lit_o), Lit_default_permissions)

\* Lines 512-534: the default flags, unless --no-default-flags was given.
PushDefaultFlags(out) ==
    IF out.useDefaultFlags
    THEN PUSHARG(PUSHARG(PUSHARG(PUSHARG(out, Lit_o), Lit_use_ino),
                         Lit_o), Lit_default_permissions)
    ELSE out

\* The validations of lines 543-581, each TRUE when it rejects.
\* The test with the source directory left out.
DaemonWithRelativeMountPoint(out) ==
    out.isDaemon /\ ~isAbsolutePath(out.opts.mountPoint)

\* Lines 543-552: daemon mode needs absolute paths.
DaemonWithRelativePath(out) ==
    out.isDaemon /\ (~isAbsolutePath(out.opts.mountPoint) \/
                     ~isAbsolutePath(out.opts.rootDir))

\* The comparison with its two strings exchanged.
MountPointUnderRawDir(out) ==
    LET testRootDir == out.opts.rootDir
        m == IF Len(testRootDir) <= Len(out.opts.mountPoint)
             THEN Len(testRootDir) ELSE Len(out.opts.mountPoint)
    IN  testRootDir = SubSeq(out.opts.mountPoint, 1, m)

\* Lines 554-567: the raw directory may not be a subdirectory of the mount
\* point.
RawDirUnderMountPoint(out) ==
    LET testMountPoint == out.opts.mountPoint
        m == IF Len(testMountPoint) <= Len(out.opts.rootDir)
             THEN Len(testMountPoint) ELSE Len(out.opts.rootDir)
        testRootDir == SubSeq(out.opts.rootDir, 1, m)
    IN  testMountPoint = testRootDir

\* The dependency test with its second operand not negated.
DelayMountWithOnDemand(out) ==
    out.opts.delayMount /\ out.opts.mountOnDemand

\* Lines 569-574: delay mount is set and mount on demand is not.
DelayMountWithoutOnDemand(out) ==
    out.opts.delayMount /\ ~out.opts.mountOnDemand

\* The test made to accept any of the three password sources.
OnDemandWithoutSource(out) ==
    /\ out.opts.mountOnDemand /\ out.opts.passwordProgram = <<>>
    /\ ~out.opts.useStdin /\ ~out.opts.useEnv

\* Lines 576-581: mount on demand is set and no password program is.
OnDemandWithoutProgram(out) ==
    out.opts.mountOnDemand /\ out.opts.passwordProgram = <<>>

\* processArgs(argc, argv, out).  env is what the calls it makes into the
\* system answer: geteuid(), and for each directory whether it exists or the
\* user allows its creation.  ret is "true" or "false" when the call returns,
\* "assert" or "exit" when it does not.
Returns(ret, out) == [ret |-> ret, args |-> out, msg |-> ""]

\* "cerr << msg; return false": msg is the line written to the error stream.
Fails(msg, out) == [ret |-> "false", args |-> out, msg |-> msg]

ValidateAndFill(out, env) ==
    IF DaemonWithRelativePath(out)
    THEN Fails("When specifying daemon mode, you must use absolute paths", out)
    ELSE IF RawDirUnderMountPoint(out)
    THEN Fails("The raw directory may not be a subdirectory of the mount point.", out)
    ELSE IF DelayMountWithoutOnDemand(out)
    THEN Fails("You must use mount-on-demand with delay-mount", out)
    ELSE IF OnDemandWithoutProgram(out)
    THEN Fails("Must set password program when using mount-on-demand", out)
    ELSE IF ~env.rootDirOk
    THEN Fails("Unable to locate root directory, aborting.", out)
    ELSE IF ~env.mountPointOk
    THEN Fails("Unable to locate mount point, aborting.", out)
    ELSE Returns("true", [out EXCEPT !.fuseArgv[1] = Ptr(out.opts.mountPoint)])

FinishNormal(out, env) ==
    IF out.ctl # "run" THEN Returns(out.ctl, out) ELSE ValidateAndFill(out, env)

\* Lines 487-534 and on: normal mode, with the two directories.
NormalMode(out, pos, env) ==
    IF Len(pos) < 2 THEN Fails("Missing one or more arguments, aborting.", out)
    ELSE FinishNormal(
           PushDefaultFlags(
             PushExtra([out EXCEPT !.opts.rootDir = slashTerminate(pos[1]),
                                   !.opts.unmountPoint = pos[2],
                                   !.opts.mountPoint = slashTerminate(pos[2])],
                       pos, 3)),
           env)

\* Lines 473-485: for --unmount, exactly one argument - the mount point.
UnmountMode(out, pos) ==
    IF Len(pos) = 1
    THEN Returns("true", [out EXCEPT !.opts.unmountPoint = pos[1]])
    ELSE Fails("Expecting one argument, aborting.", out)

\* Lines 469-621, with the options scanned.
AfterOptions(out, pos, env) ==
    IF out.ctl # "run" THEN Returns(out.ctl, out)
    ELSE IF out.opts.unmount THEN UnmountMode(out, pos)
    ELSE NormalMode(out, pos, env)

SingleThreadFlag(out) ==
    IF ~out.isThreaded THEN PUSHARG(out, Lit_s) ELSE out

AfterScan(scanned, env) ==
    AfterOptions(SingleThreadFlag(scanned.out), scanned.pos, env)

processArgs(argv, env) ==
    AfterScan(GetoptLoop(argv, 2, 0, <<>>, SetDefaults(argv, EncFS_Args),
                         env.euid), env)

(***************************************************************************)
(* 32-bit int arithmetic of idleMonitor.                                   *)
(***************************************************************************)
ActivityCheckInterval == 10

\* c * m reduced to a 32-bit two's complement int, for 0 <= c < 2^15 and
\* 0 <= m < 2^31, computed on 16-bit halves.
MulWrap32(c, m) ==
    LET lo == m % 65536
        hi == m \div 65536
        low == (c * lo) % 65536
        carry == (c * lo) \div 65536
        high == (c * hi + carry) % 65536
    IN  IF high >= 32768 THEN (high - 65536) * 65536 + low
        ELSE high * 65536 + low

\* C's int division, which truncates towards zero (d > 0).
TruncDiv(a, d) ==
    LET q == a \div d IN IF a < 0 /\ q * d # a THEN q + 1 ELSE q

INT_MAX == 2147483647

\* const int timeoutCycles = 60 * arg->idleTimeout / ActivityCheckInterval;
\* for idleTimeout > 0.  When 60 * idleTimeout exceeds INT_MAX the signed
\* multiplication overflows: the build either wraps the product, or has
\* folded the expression to 6 * idleTimeout (which wraps in turn once that
\* exceeds INT_MAX).
TimeoutCycles(idleTimeout) ==
    IF idleTimeout <= INT_MAX \div 60
    THEN {(60 * idleTimeout) \div ActivityCheckInterval}
    ELSE {TruncDiv(MulWrap32(60, idleTimeout), ActivityCheckInterval),
          MulWrap32(60 \div ActivityCheckInterval, idleTimeout)}

(***************************************************************************)
(* EncFS_Context::usageAndUnmount(timeoutCycles): one idle check.  active  *)
(* says whether the filesystem was used, or has files open, since the last *)
(* check.  unmounted: the check has just unmounted the filesystem.         *)
(***************************************************************************)
usageAndUnmount(count, cycles, active) ==
    LET c == IF active THEN 0 ELSE count + 1 IN
    IF c < cycles THEN [idleCount |-> c, unmounted |-> FALSE]
    ELSE IF active THEN [idleCount |-> c, unmounted |-> FALSE]
    ELSE [idleCount |-> c, unmounted |-> TRUE]

(***************************************************************************)
(* The state.                                                              *)
(***************************************************************************)
VARIABLES
    argv,           \* main's argument vector; argv[1] is the program name
    env,            \* what the system answers to processArgs
    pc,             \* where the main thread is
    encfsArgs,      \* main's EncFS_Args
    argsRet,        \* how processArgs ended, "none" before it is called
    returnCode,     \* main's returnCode
    exitStatus,     \* how the process ended, "none" while it runs
    usagePrinted,   \* usage() was called
    unmountCalls,   \* calls of unmountFS
    ctxMade,        \* an EncFS_Context has been constructed
    rootInfo,       \* "none", "held", "null" (initFS failed) or "released"
    running,        \* ctx->running
    staleRead,      \* main's unsynchronised write of running may not yet
                    \* be seen by the monitor thread
    wakeupMutex,    \* the owner of ctx->wakeupMutex: "free", "main", "monitor"
    monitorThread,  \* ctx->monitorThread: "invalid" until pthread_create fills it
    nThreads,       \* monitor threads created so far
    idleCount,      \* the context's count of idle cycles
    fsUnmounted,    \* the idle check has unmounted the filesystem
    initCalled,     \* fuse has called encfs_init
    loopEnd,        \* how fuse_main ended: "none", "returned", "threw"
    res,            \* what fuse_main returned
    elapsed,        \* endTime - startTime, in seconds
    oldStderr,      \* the global oldStderr
    supPc,          \* where the monitor thread is, "none" when there is none
    timeoutCycles,  \* idleMonitor's local
    unmountres,     \* idleMonitor's local
    cerr,           \* the status lines written to the error stream
    origErr,        \* what was written to the saved original error stream
    order,          \* history: the teardown steps of main, in order
    runningAccess,  \* history: the accesses of ctx->running
    checkedAfterRelease, \* history: an idle check ran after the root was released
    dupFailed       \* history: dup(STDERR_FILENO) gave no descriptor

inputs == <<argv, env>>
mainV == <<pc, encfsArgs, argsRet, returnCode, exitStatus, usagePrinted, unmountCalls>>
ctxV == <<ctxMade, rootInfo, running, staleRead, wakeupMutex, monitorThread,
          nThreads, idleCount, fsUnmounted>>
engV == <<initCalled, loopEnd, res, elapsed, oldStderr>>
supV == <<supPc, timeoutCycles, unmountres>>
outV == <<cerr, origErr>>
histV == <<order, runningAccess, checkedAfterRelease, dupFailed>>
vars == <<argv, env, pc, encfsArgs, argsRet, returnCode, exitStatus, usagePrinted,
          unmountCalls, ctxMade, rootInfo, running, staleRead, wakeupMutex,
          monitorThread, nThreads, idleCount, fsUnmounted, initCalled,
          loopEnd, res, elapsed, oldStderr, supPc, timeoutCycles, unmountres,
          cerr, origErr, order, runningAccess, checkedAfterRelease,
          dupFailed>>

STDERR_FILENO == 2

\* The state main starts in, for a command line and a system.
Start(args, envs) ==
    /\ argv \in args
    /\ env \in envs
    /\ pc = "start"
    /\ encfsArgs = EncFS_Args
    /\ argsRet = "none"
    /\ returnCode = "none"
    /\ exitStatus = "none"
    /\ usagePrinted = FALSE
    /\ unmountCalls = 0
    /\ ctxMade = FALSE
    /\ rootInfo = "none"
    /\ running = FALSE
    /\ staleRead = FALSE
    /\ wakeupMutex = "free"
    /\ monitorThread = "invalid"
    /\ nThreads = 0
    /\ idleCount = 0
    /\ fsUnmounted = FALSE
    /\ initCalled = FALSE
    /\ loopEnd = "none"
    /\ res = 0
    /\ elapsed = 0
    /\ oldStderr = STDERR_FILENO
    /\ supPc = "none"
    /\ timeoutCycles = 0
    /\ unmountres = FALSE
    /\ cerr = <<>>
    /\ origErr = <<>>
    /\ order = <<>>
    /\ runningAccess = {}
    /\ checkedAfterRelease = FALSE
    /\ dupFailed = FALSE

(***************************************************************************)
(* main, up to the call of fuse_main.                                      *)
(***************************************************************************)
\* The result of processArgs not looked at.
AfterProcessArgsUnchecked(r) ==
    IF r.args.opts.unmount THEN "unmount" ELSE "initFS"

\* Lines 683-691: where main goes on once processArgs has ended.
AfterProcessArgs(r) ==
    CASE r.ret = "true" -> IF r.args.opts.unmount THEN "unmount" ELSE "initFS"
      [] r.ret = "assert" -> "terminated"
      [] OTHER -> "done"

\* Lines 663-689: init_encfs_pidinfo, processArgs, usage.  An rAssert that
\* fails inside processArgs is caught nowhere: the process is terminated.
MainStart ==
    /\ pc = "start"
    /\ \E pidinfoOk \in BOOLEAN :
        IF ~pidinfoOk THEN
            /\ pc' = "done" /\ exitStatus' = "EXIT_FAILURE"
            /\ cerr' = Append(cerr, "Init encfs pid info failed")
            /\ UNCHANGED <<encfsArgs, argsRet, usagePrinted>>
        ELSE IF Len(argv) = 1 THEN
            /\ pc' = "done" /\ exitStatus' = "EXIT_FAILURE"
            /\ usagePrinted' = TRUE
            /\ UNCHANGED <<encfsArgs, argsRet, cerr>>
        ELSE LET r == processArgs(argv, env) IN
            /\ encfsArgs' = r.args
            /\ argsRet' = r.ret
            /\ usagePrinted' = (r.ret = "false")
            /\ cerr' = IF r.msg # "" THEN Append(cerr, r.msg) ELSE cerr
            /\ pc' = AfterProcessArgs(r)
            /\ exitStatus' = CASE r.ret = "true" -> "none"
                               [] r.ret = "false" -> "EXIT_FAILURE"
                               [] r.ret = "exit" -> "EXIT_SUCCESS"
                               [] OTHER -> "signal"
    /\ UNCHANGED <<inputs, returnCode, unmountCalls, ctxV, engV, supV, origErr, histV>>

\* The unmount branch without its return: main goes on to mount.
MainUnmountFallsThrough ==
    /\ pc = "unmount"
    /\ unmountCalls' = unmountCalls + 1
    /\ pc' = "initFS"
    /\ UNCHANGED <<inputs, encfsArgs, argsRet, returnCode, exitStatus, usagePrinted,
                   ctxV, engV, supV, outV, histV>>

\* Lines 691-697: unmountFS(unmountPoint) and return 0.
MainUnmount ==
    /\ pc = "unmount"
    /\ unmountCalls' = unmountCalls + 1
    /\ pc' = "done"
    /\ exitStatus' = "EXIT_SUCCESS"
    /\ UNCHANGED <<inputs, encfsArgs, argsRet, returnCode, usagePrinted, ctxV, engV, supV,
                   outV, histV>>

\* Lines 699-756: the context is made and initFS gives the root, or fails.
MainInitFS ==
    /\ pc = "initFS"
    /\ ctxMade' = TRUE
    /\ returnCode' = "EXIT_FAILURE"
    /\ \E ok \in BOOLEAN :
        /\ rootInfo' = IF ok THEN "held" ELSE "null"
        /\ pc' = IF ok THEN "enter" ELSE "release"
    /\ UNCHANGED <<inputs, encfsArgs, argsRet, exitStatus, usagePrinted, unmountCalls,
                   running, staleRead, wakeupMutex, monitorThread, nThreads,
                   idleCount, fsUnmounted, engV, supV, outV, histV>>

\* Lines 758-801: the root is attached, stderr is saved in daemon mode (dup
\* may fail), the start line is written and fuse_main is called.
MainEnterLoop ==
    /\ pc = "enter"
    /\ encfsArgs' = [encfsArgs EXCEPT !.opts.delayMount = FALSE]
    /\ IF encfsArgs.isDaemon
       THEN \E fd \in {3, -1} : oldStderr' = fd /\ dupFailed' = (fd < 0)
       ELSE UNCHANGED <<oldStderr, dupFailed>>
    /\ cerr' = IF encfsArgs.opts.annotate
               THEN Append(cerr, "$STATUS$ fuse_main_start") ELSE cerr
    /\ pc' = "fuse_main"
    /\ UNCHANGED <<inputs, argsRet, returnCode, exitStatus, usagePrinted, unmountCalls,
                   ctxV, initCalled, loopEnd, res, elapsed, supV, origErr, order, runningAccess,
                   checkedAfterRelease>>

(***************************************************************************)
(* encfs_init, called by fuse once while fuse_main serves.                 *)
(***************************************************************************)
MonitorWantedUnlessZero(args) == args.idleTimeout # 0

\* Line 641: an idle timeout is specified, so a monitor thread is set up.
MonitorWanted(args) == args.idleTimeout > 0

Access(site, thread, op) ==
    [site |-> site, op |-> op, locked |-> wakeupMutex = thread]

encfs_init ==
    /\ pc = "fuse_main"
    /\ ~initCalled
    /\ initCalled' = TRUE
    /\ IF MonitorWanted(encfsArgs) THEN
          /\ running' = TRUE
          /\ runningAccess' = runningAccess \cup
                                {Access("encfs_init", "fuse", "write")}
          /\ \E created \in BOOLEAN :
                IF created
                THEN /\ monitorThread' = "valid"
                     /\ nThreads' = nThreads + 1
                     /\ supPc' = "start"
                ELSE UNCHANGED <<monitorThread, nThreads, supPc>>
       ELSE UNCHANGED <<running, runningAccess, monitorThread, nThreads, supPc>>
    /\ oldStderr' = IF encfsArgs.isDaemon /\ oldStderr >= 0 THEN -1 ELSE oldStderr
    /\ UNCHANGED <<inputs, mainV, ctxMade, rootInfo, staleRead, wakeupMutex,
                   idleCount, fsUnmounted, loopEnd, res, elapsed, timeoutCycles,
                   unmountres, outV, order, checkedAfterRelease, dupFailed>>

(***************************************************************************)
(* main, from the end of fuse_main on.                                     *)
(***************************************************************************)
FuseFailedReportedAnyFd(r, isDaemon, fd, dt) ==
    r # 0 /\ isDaemon /\ dt <= 1

\* Lines 815-816: the condition under which "fuse failed" is reported.
FuseFailedReported(r, isDaemon, fd, dt) ==
    r # 0 /\ isDaemon /\ fd >= 0 /\ dt <= 1

\* What fuse_main may return, and the seconds it may have taken.
FuseResults == {0, 1}
MaxElapsed == 2

\* Lines 805-826: fuse_main returned r after dt seconds.
MainLoopReturns ==
    /\ pc = "fuse_main"
    /\ \E r \in FuseResults, dt \in 0..MaxElapsed :
        /\ res' = r
        /\ elapsed' = dt
        /\ returnCode' = IF r = 0 THEN "EXIT_SUCCESS" ELSE returnCode
        /\ origErr' = IF FuseFailedReported(r, encfsArgs.isDaemon, oldStderr, dt)
                      THEN Append(origErr, "fuse failed") ELSE origErr
    /\ loopEnd' = "returned"
    /\ cerr' = IF encfsArgs.opts.annotate
               THEN Append(cerr, "$STATUS$ fuse_main_end") ELSE cerr
    /\ pc' = "teardown"
    /\ UNCHANGED <<inputs, encfsArgs, argsRet, exitStatus, usagePrinted, unmountCalls,
                   ctxV, initCalled, oldStderr, supV, histV>>

\* Lines 827-832: an exception left fuse_main and is caught and logged.
MainLoopThrows ==
    /\ pc = "fuse_main"
    /\ loopEnd' = "threw"
    /\ pc' = "teardown"
    /\ UNCHANGED <<inputs, encfsArgs, argsRet, returnCode, exitStatus, usagePrinted,
                   unmountCalls, ctxV, initCalled, res, elapsed, oldStderr,
                   supV, outV, histV>>

\* Line 834: the monitor thread is to be stopped and joined.
MonitorToStop(args) == args.idleTimeout > 0

\* Lines 834-835: with an idle timeout, running is cleared (the mutex is not
\* held); the monitor thread may still read the value it had.
MainStopMonitor ==
    /\ pc = "teardown"
    /\ IF MonitorToStop(encfsArgs) THEN
          /\ running' = FALSE
          /\ staleRead' = TRUE
          /\ runningAccess' = runningAccess \cup {Access("main", "main", "write")}
          /\ order' = Append(order, "running = false")
          /\ pc' = "lock"
       ELSE /\ pc' = "release"
            /\ UNCHANGED <<running, staleRead, runningAccess, order>>
    /\ UNCHANGED <<inputs, encfsArgs, argsRet, returnCode, exitStatus, usagePrinted,
                   unmountCalls, ctxMade, rootInfo, wakeupMutex, monitorThread,
                   nThreads, idleCount, fsUnmounted, engV, supV, outV,
                   checkedAfterRelease, dupFailed>>

\* Line 838: pthread_mutex_lock.
MainLock ==
    /\ pc = "lock"
    /\ wakeupMutex = "free"
    /\ wakeupMutex' = "main"
    /\ pc' = "signal"
    /\ UNCHANGED <<inputs, encfsArgs, argsRet, returnCode, exitStatus, usagePrinted,
                   unmountCalls, ctxMade, rootInfo, running, staleRead,
                   monitorThread, nThreads, idleCount, fsUnmounted, engV, supV,
                   outV, histV>>

\* The signal is not delivered to the waiting thread.
MainSignalLost ==
    /\ pc = "signal"
    /\ supPc' = supPc
    /\ order' = Append(order, "signal")
    /\ pc' = "unlock"
    /\ UNCHANGED <<inputs, encfsArgs, argsRet, returnCode, exitStatus, usagePrinted,
                   unmountCalls, ctxV, engV, timeoutCycles, unmountres, outV,
                   runningAccess, checkedAfterRelease, dupFailed>>

\* Line 839: pthread_cond_signal wakes the monitor thread if it waits.
MainSignal ==
    /\ pc = "signal"
    /\ supPc' = IF supPc = "waiting" THEN "woken" ELSE supPc
    /\ order' = Append(order, "signal")
    /\ pc' = "unlock"
    /\ UNCHANGED <<inputs, encfsArgs, argsRet, returnCode, exitStatus, usagePrinted,
                   unmountCalls, ctxV, engV, timeoutCycles, unmountres, outV,
                   runningAccess, checkedAfterRelease, dupFailed>>

\* Line 840: pthread_mutex_unlock.
MainUnlock ==
    /\ pc = "unlock"
    /\ wakeupMutex' = "free"
    /\ pc' = "join"
    /\ UNCHANGED <<inputs, encfsArgs, argsRet, returnCode, exitStatus, usagePrinted,
                   unmountCalls, ctxMade, rootInfo, running, staleRead,
                   monitorThread, nThreads, idleCount, fsUnmounted, engV, supV,
                   outV, histV>>

\* Line 842: pthread_join(ctx->monitorThread).  With a thread it returns once
\* the thread has ended.  Without one the handle was never filled and the
\* call is undefined: it returns at once with an error, or the process dies.
JoinWithoutWaiting == TRUE

JoinReturns == IF monitorThread = "valid" THEN supPc = "done" ELSE TRUE

MainJoin ==
    /\ pc = "join"
    /\ \/ /\ JoinReturns
          /\ order' = Append(order, "join")
          /\ pc' = "release"
          /\ UNCHANGED exitStatus
       \/ /\ monitorThread = "invalid"
          /\ pc' = "terminated"
          /\ exitStatus' = "signal"
          /\ UNCHANGED order
    /\ UNCHANGED <<inputs, encfsArgs, argsRet, returnCode, usagePrinted, unmountCalls,
                   ctxV, engV, supV, outV, runningAccess, checkedAfterRelease, dupFailed>>

\* Lines 847-854: the root is released and main returns returnCode.
MainRelease ==
    /\ pc = "release"
    /\ rootInfo' = IF rootInfo = "held" THEN "released" ELSE rootInfo
    /\ order' = Append(order, "release")
    /\ exitStatus' = returnCode
    /\ pc' = "done"
    /\ UNCHANGED <<inputs, encfsArgs, argsRet, returnCode, usagePrinted, unmountCalls,
                   ctxMade, running, staleRead, wakeupMutex, monitorThread,
                   nThreads, idleCount, fsUnmounted, engV, supV, outV,
                   runningAccess, checkedAfterRelease, dupFailed>>

(***************************************************************************)
(* idleMonitor, the monitor thread.                                        *)
(***************************************************************************)
\* The most idle cycles the context counts in the model.
MaxIdleCount == 7

\* Lines 867-876: timeoutCycles is computed.
MonitorStart ==
    /\ supPc = "start"
    /\ \E tc \in TimeoutCycles(encfsArgs.idleTimeout) : timeoutCycles' = tc
    /\ unmountres' = FALSE
    /\ supPc' = "lock"
    /\ UNCHANGED <<inputs, mainV, ctxV, engV, outV, histV>>

\* main has released the mutex after clearing running: whoever takes the
\* mutex next sees the write.
MainWritePublished == pc \in {"join", "release", "done", "terminated"}

\* Line 878: pthread_mutex_lock, and line 891: pthread_cond_timedwait takes
\* the mutex again after a wakeup.
MonitorLock ==
    /\ supPc \in {"lock", "woken"}
    /\ wakeupMutex = "free"
    /\ wakeupMutex' = "monitor"
    /\ staleRead' = IF MainWritePublished THEN FALSE ELSE staleRead
    /\ supPc' = "test"
    /\ UNCHANGED <<inputs, mainV, ctxMade, rootInfo, running, monitorThread,
                   nThreads, idleCount, fsUnmounted, engV, timeoutCycles,
                   unmountres, outV, histV>>

\* Line 880: while (ctx->running).
MonitorTest ==
    /\ supPc = "test"
    /\ \E seen \in (IF staleRead THEN {TRUE, running} ELSE {running}) :
          supPc' = IF seen THEN "check" ELSE "unlock"
    /\ runningAccess' = runningAccess \cup
                            {Access("idleMonitor", "monitor", "read")}
    /\ UNCHANGED <<inputs, mainV, ctxV, engV, timeoutCycles, unmountres, outV,
                   order, checkedAfterRelease, dupFailed>>

\* The loop without its break.
AfterCheckNoBreak(unmounted) == "timedwait"

\* Lines 882-891: break when the check unmounted, else the timed wait.
AfterCheck(unmounted) == IF unmounted THEN "unlock" ELSE "timedwait"

\* Lines 881-884: the idle check; break when it unmounted.
MonitorCheck ==
    /\ supPc = "check"
    /\ \E active \in BOOLEAN :
        LET u == usageAndUnmount(idleCount, timeoutCycles, active) IN
        /\ u.idleCount <= MaxIdleCount
        /\ idleCount' = u.idleCount
        /\ unmountres' = u.unmounted
        /\ fsUnmounted' = (fsUnmounted \/ u.unmounted)
        /\ supPc' = AfterCheck(u.unmounted)
    /\ checkedAfterRelease' = (checkedAfterRelease \/ rootInfo = "released")
    /\ UNCHANGED <<inputs, mainV, ctxMade, rootInfo, running, staleRead,
                   wakeupMutex, monitorThread, nThreads, engV, timeoutCycles,
                   outV, order, runningAccess, dupFailed>>

\* Lines 886-891: pthread_cond_timedwait releases the mutex and waits.
MonitorWait ==
    /\ supPc = "timedwait"
    /\ wakeupMutex' = "free"
    /\ supPc' = "waiting"
    /\ UNCHANGED <<inputs, mainV, ctxMade, rootInfo, running, staleRead,
                   monitorThread, nThreads, idleCount, fsUnmounted, engV,
                   timeoutCycles, unmountres, outV, histV>>

\* Line 891: the wait reaches its deadline (or wakes spuriously).
MonitorTimeout ==
    /\ supPc = "waiting"
    /\ supPc' = "woken"
    /\ UNCHANGED <<inputs, mainV, ctxV, engV, timeoutCycles, unmountres, outV,
                   histV>>

\* The thread ends without line 894's unlock.
MonitorExitHoldingMutex ==
    /\ supPc = "unlock"
    /\ supPc' = "done"
    /\ UNCHANGED <<inputs, mainV, ctxMade, rootInfo, running, staleRead,
                   wakeupMutex, monitorThread, nThreads, idleCount,
                   fsUnmounted, engV, timeoutCycles, unmountres, outV, histV>>

\* Lines 894-904: the mutex is released and the thread ends.
MonitorExit ==
    /\ supPc = "unlock"
    /\ wakeupMutex' = "free"
    /\ supPc' = "done"
    /\ UNCHANGED <<inputs, mainV, ctxMade, rootInfo, running, staleRead,
                   monitorThread, nThreads, idleCount, fsUnmounted, engV,
                   timeoutCycles, unmountres, outV, histV>>

(***************************************************************************)
(* The command lines and systems the model is run on.                      *)
(***************************************************************************)
Tok_H == <<"-","H">>
Tok_s == <<"-","s">>
Tok_S == <<"-","S">>
Tok_v == <<"-","v">>
Tok_m == <<"-","m">>
Tok_E == <<"-","E">>
Tok_u == <<"-","u">>
Tok_i == <<"-","i">>
Tok_o == <<"-","o">>
Tok_t == <<"-","t">>
Tok_c == <<"-","c">>
Tok_k == <<"-","k">>
Tok_D == <<"-","D">>
Tok_r == <<"-","r">>
Tok_R == <<"-","R">>
Tok_P == <<"-","P">>
Tok_p == <<"-","p">>
Tok_N == <<"-","N">>
Tok_M == <<"-","M">>
Tok_V == <<"-","V">>
Tok_foreground == <<"-","-","f","o","r","e","g","r","o","u","n","d">>
Tok_bogus == <<"-","-","b","o","g","u","s">>
Tok_idle_eq == <<"-","-","i","d","l","e","=","1">>
Tok_dashdash == <<"-","-">>
Tok_sv == <<"-","s","v">>
Tok_i1 == <<"-","i","1">>
Num_0 == <<"0">>
Num_1 == <<"1">>
Num_neg == <<"-","1">>
Num_big == <<"3","5","7","9","1","3","9","5">>
Num_huge == <<"3","5","7","9","1","3","9","4","2">>
Path_a == <<"/","a">>
Path_b == <<"/","b">>
Path_ab == <<"/","a","/","b">>
Path_rel == <<"a">>
Tok_x == <<"-","x">>
Tok_no == <<"-","-","n","o">>
Tok_verbose_eq == <<"-","-","v","e","r","b","o","s","e","=","1">>
Path_x == <<"x">>
Path_aa == <<"/","a","a">>
Path_prog == <<"/","x","/","e","n","c","f","s">>
Long_fuse_debug == <<"-","-","f","u","s","e","-","d","e","b","u","g">>
Long_forcedecode == <<"-","-","f","o","r","c","e","d","e","c","o","d","e">>
Long_fuse_help == <<"-","-","f","u","s","e","-","h","e","l","p">>
Long_idle == <<"-","-","i","d","l","e">>
Long_anykey == <<"-","-","a","n","y","k","e","y">>
Long_no_default_flags == <<"-","-","n","o","-","d","e","f","a","u","l","t","-","f","l","a","g","s">>
Long_ondemand == <<"-","-","o","n","d","e","m","a","n","d">>
Long_delaymount == <<"-","-","d","e","l","a","y","m","o","u","n","t">>
Long_public == <<"-","-","p","u","b","l","i","c">>
Long_extpass == <<"-","-","e","x","t","p","a","s","s">>
Long_stdinpass == <<"-","-","s","t","d","i","n","p","a","s","s">>
Long_syslogtag == <<"-","-","s","y","s","l","o","g","t","a","g">>
Long_annotate == <<"-","-","a","n","n","o","t","a","t","e">>
Long_nocache == <<"-","-","n","o","c","a","c","h","e">>
Long_nodatacache == <<"-","-","n","o","d","a","t","a","c","a","c","h","e">>
Long_noattrcache == <<"-","-","n","o","a","t","t","r","c","a","c","h","e">>
Long_verbose == <<"-","-","v","e","r","b","o","s","e">>
Long_version == <<"-","-","v","e","r","s","i","o","n">>
Long_reverse == <<"-","-","r","e","v","e","r","s","e">>
Long_reversewrite == <<"-","-","r","e","v","e","r","s","e","w","r","i","t","e">>
Long_standard == <<"-","-","s","t","a","n","d","a","r","d">>
Long_paranoia == <<"-","-","p","a","r","a","n","o","i","a">>
Long_require_macs == <<"-","-","r","e","q","u","i","r","e","-","m","a","c","s">>
Long_insecure == <<"-","-","i","n","s","e","c","u","r","e">>
Long_config == <<"-","-","c","o","n","f","i","g">>
Long_unmount == <<"-","-","u","n","m","o","u","n","t">>

\* Command lines of the mounts whose life is followed: foreground or
\* daemon, with or without annotation, with the idle timeouts below.
IdleOptions ==
    {<<>>, <<Tok_i, Num_0>>, <<Tok_i, Num_neg>>, <<Tok_i, Num_1>>,
     <<Long_idle, Num_big>>}

MountArgvs ==
    {<<Lit_encfs>> \o fg \o an \o idle \o <<Path_a, Path_b>> :
        fg \in {<<>>, <<Lit_f>>}, an \in {<<>>, <<Long_annotate>>},
        idle \in IdleOptions}
    \cup {<<Lit_encfs>>, <<Lit_encfs, Tok_u, Path_b>>,
          <<Lit_encfs, Long_delaymount, Path_a, Path_b>>}

MountEnvs == [euid : {1000}, rootDirOk : {TRUE}, mountPointOk : BOOLEAN]

\* Command lines for processArgs alone.  Every option in its short and long
\* spelling, with and without the argument it takes, and spellings the
\* tables do not hold.
ShortGroups ==
    {<<Tok_H>>, <<Tok_s>>, <<Tok_S>>, <<Lit_f>>, <<Tok_v>>, <<Lit_d>>,
     <<Tok_m>>, <<Tok_E>>, <<Tok_u>>, <<Tok_i, Num_1>>, <<Tok_o, Path_x>>,
     <<Tok_t, Path_x>>, <<Tok_c, Path_x>>, <<Tok_k>>, <<Tok_D>>, <<Tok_r>>,
     <<Tok_R>>, <<Tok_P>>, <<Tok_p, Path_x>>, <<Tok_N>>, <<Tok_M>>,
     <<Tok_V>>, <<Tok_sv>>, <<Tok_i1>>, <<Tok_i>>}

LongGroups ==
    {<<Long_fuse_debug>>, <<Long_forcedecode>>, <<Long_fuse_help>>,
     <<Long_idle, Num_1>>, <<Long_anykey>>, <<Long_no_default_flags>>,
     <<Long_ondemand>>, <<Long_delaymount>>, <<Long_public>>,
     <<Long_extpass, Path_x>>, <<Long_stdinpass>>, <<Long_syslogtag, Path_x>>,
     <<Long_annotate>>, <<Long_nocache>>, <<Long_nodatacache>>,
     <<Long_noattrcache>>, <<Long_verbose>>, <<Long_version>>,
     <<Long_reverse>>, <<Long_reversewrite>>, <<Long_standard>>,
     <<Long_paranoia>>, <<Long_require_macs>>, <<Long_insecure>>,
     <<Long_config, Path_x>>, <<Long_unmount, Path_x>>, <<Long_unmount>>,
     <<Tok_foreground>>, <<Tok_bogus>>, <<Tok_idle_eq>>, <<Tok_dashdash>>}

OptGroups == ShortGroups \cup LongGroups \cup {<<>>}

\* The options whose combination with another the validations look at.
KeyGroups ==
    {<<>>, <<Tok_u>>, <<Tok_m>>, <<Long_delaymount>>,
     <<Long_extpass, Path_x>>, <<Tok_bogus>>}

PosLists ==
    {<<>>, <<Path_b>>, <<Path_a, Path_b>>, <<Path_rel, Path_b>>,
     <<Path_ab, Path_a>>, <<Path_a, Path_ab>>, <<Path_a, Path_b, Path_x>>,
     <<Path_aa, Path_a>>, <<Path_b, Path_b>>, <<Path_rel, Path_rel>>}

\* Command lines that fill the fuse argument vector: n times -d.
MaxPad == 27
Pad(n) == [k \in 1..n |-> Lit_d]

PushGroups ==
    {<<>>, <<Lit_f>>, <<Tok_s>>, <<Tok_N>>, <<Long_nocache>>,
     <<Tok_o, Path_x>>, <<Long_delaymount>>}

ParseArgvs ==
    {<<Lit_encfs>> \o fg \o g1 \o g2 \o pos :
        fg \in {<<>>, <<Lit_f>>}, g1 \in OptGroups, g2 \in KeyGroups,
        pos \in PosLists}
    \cup
    {<<Lit_encfs>> \o g \o Pad(n) \o pos :
        g \in PushGroups, n \in (MaxPad - 3)..MaxPad,
        pos \in {<<Path_b>>, <<Path_a, Path_b>>, <<Path_a, Path_b, Path_x>>}}
    \cup {<<Path_prog>> \o n \o <<Path_a, Path_b>> : n \in {<<>>, <<Tok_N>>}}

ParseEnvs ==
    {[euid |-> 1000, rootDirOk |-> TRUE, mountPointOk |-> TRUE],
     [euid |-> 0, rootDirOk |-> TRUE, mountPointOk |-> TRUE],
     [euid |-> 1000, rootDirOk |-> FALSE, mountPointOk |-> TRUE],
     [euid |-> 1000, rootDirOk |-> TRUE, mountPointOk |-> FALSE]}

(***************************************************************************)
(* The specifications.                                                     *)
(***************************************************************************)
Init == Start(MountArgvs, MountEnvs)

MainStep ==
    \/ MainStart
    \/ MainUnmount
    \/ MainInitFS
    \/ MainEnterLoop
    \/ MainLoopReturns
    \/ MainLoopThrows
    \/ MainStopMonitor
    \/ MainLock
    \/ MainSignal
    \/ MainUnlock
    \/ MainJoin
    \/ MainRelease

MonitorStep ==
    \/ MonitorStart
    \/ MonitorLock
    \/ MonitorTest
    \/ MonitorCheck
    \/ MonitorWait
    \/ MonitorExit

Next == MainStep \/ encfs_init \/ MonitorStep \/ MonitorTimeout

\* A mount from the command line to the end of the process.
Spec == Init /\ [][Next]_vars

\* The same, with the scheduling the threads can rely on: a thread that can
\* take a step takes one, and a thread waiting for the mutex gets it when it
\* is free again and again.  Nothing makes the timed wait reach its
\* deadline.
FairSpec ==
    /\ Spec
    /\ WF_vars(MainStep)
    /\ WF_vars(MonitorStep)
    /\ SF_vars(MainLock)
    /\ SF_vars(MonitorLock)

\* processArgs on every command line of ParseArgvs, and what main does with
\* its answer.
InitArgs == Start(ParseArgvs, ParseEnvs)
NextArgs == MainStart \/ MainUnmount \/ MainInitFS
SpecArgs == InitArgs /\ [][NextArgs]_vars

(***************************************************************************)
(* The claims.                                                             *)
(***************************************************************************)
TeardownSteps == <<"running = false", "signal", "join", "release">>

C2_ShutdownWakes ==
    (pc = "lock" /\ monitorThread = "valid") ~> (pc = "release")

\* The monitor thread went through idle checks, ended on reading
\* running = false (not on an unmount of its own), and the join returned.
C2_Witness ==
    /\ pc = "release" /\ monitorThread = "valid" /\ supPc = "done"
    /\ ~unmountres /\ idleCount > 0

\* C3: every write and every read of ctx->running is made by a thread that
\* holds wakeupMutex.
C3_RunningGuarded == \A a \in runningAccess : a.locked

\* C4: a monitor thread is created only when the idle timeout is > 0, there
\* is never more than one, and with a timeout of 0 or below main neither
\* signals nor joins.
C4_OneMonitorIfTimeout ==
    /\ nThreads <= 1
    /\ (nThreads > 0 \/ supPc # "none") => encfsArgs.idleTimeout > 0
    /\ encfsArgs.idleTimeout <= 0 =>
          /\ pc \notin {"lock", "signal", "unlock", "join"}
          /\ \A k \in 1..Len(order) : order[k] \notin {"signal", "join"}

\* A mount with a negative idle timeout, whose init callback ran, served and
\* was torn down with no monitor thread.
C4_Witness ==
    /\ pc = "done" /\ encfsArgs.idleTimeout < 0 /\ initCalled
    /\ rootInfo = "released" /\ nThreads = 0 /\ order = <<"release">>

\* C5: once computed, timeoutCycles is 6 * idleTimeout, for every
\* idleTimeout > 0 the int field holds.
C5_SixCyclesPerMinute ==
    supPc \notin {"none", "start"} => timeoutCycles = 6 * encfsArgs.idleTimeout

\* C6: once the context is made, the process ends with success exactly when
\* fuse_main returned 0; a failed initFS, a non-zero return and an exception
\* end it with EXIT_FAILURE.
C6_ExitFollowsLoop ==
    (ctxMade /\ exitStatus # "none") =>
        /\ exitStatus = "EXIT_SUCCESS" <=> (loopEnd = "returned" /\ res = 0)
        /\ exitStatus # "EXIT_SUCCESS" => exitStatus = "EXIT_FAILURE"

\* C7: after an exception from fuse_main the process ends by main returning
\* EXIT_FAILURE, with the monitor stopped and joined (idle timeout > 0) and
\* the root released.
C7_ThrowKeepsTeardown ==
    (loopEnd = "threw" /\ exitStatus # "none") =>
        /\ pc = "done" /\ exitStatus = "EXIT_FAILURE"
        /\ rootInfo = "released"
        /\ encfsArgs.idleTimeout > 0 => order = TeardownSteps

\* C8 as claimed: "fuse failed" is written to the saved error stream exactly
\* when fuse_main returned non-zero in daemon mode within one second (and
\* the error stream could be saved), whether or not encfs_init had run.
C8_ReportedOnQuickFailure ==
    /\ (loopEnd = "returned" /\ ~dupFailed) =>
          (origErr # <<>> <=> (res # 0 /\ encfsArgs.isDaemon /\ elapsed <= 1))
    /\ loopEnd # "returned" => origErr = <<>>

\* C8 as amended: it is written exactly when, besides, the saved descriptor
\* is still there: dup gave one and encfs_init has not run and closed it.
C8_ReportedWhileFdSaved ==
    /\ loopEnd = "returned" =>
          (origErr = <<"fuse failed">>
             <=> (res # 0 /\ encfsArgs.isDaemon /\ elapsed <= 1
                  /\ ~initCalled /\ ~dupFailed))
    /\ loopEnd = "returned" => origErr \in {<<>>, <<"fuse failed">>}
    /\ loopEnd # "returned" => origErr = <<>>

\* fuse_main failed at once in daemon mode before calling encfs_init, and
\* the message was written.
C8_Witness ==
    /\ loopEnd = "returned" /\ res # 0 /\ elapsed <= 1 /\ encfsArgs.isDaemon
    /\ ~initCalled /\ origErr = <<"fuse failed">>

\* C9: processArgs never leaves by an exception: whatever the argument
\* list, however many pass-through entries it pushes, the call comes back
\* (true, or false followed by the usage text and EXIT_FAILURE), short of
\* the exits of --version and --help.
C9_ProcessArgsReturns ==
    /\ argsRet # "assert"
    /\ argsRet = "false" => (usagePrinted /\ exitStatus = "EXIT_FAILURE")

\* C10 as claimed: an argument list that sets delay mount and not mount on
\* demand makes processArgs return false, in unmount mode too, and no
\* context is made.
C10_DelayAlwaysRejected ==
    (argsRet \in {"true", "false"}
       /\ encfsArgs.opts.delayMount /\ ~encfsArgs.opts.mountOnDemand)
        => (argsRet = "false" /\ ~ctxMade)

\* C10 as amended: with delay mount set and mount on demand not set, no
\* context is ever made, and processArgs returns true only in unmount mode,
\* which returns before the dependency is looked at.
C10_DelayRejectedUnlessUnmount ==
    (argsRet # "none"
       /\ encfsArgs.opts.delayMount /\ ~encfsArgs.opts.mountOnDemand)
        => /\ ~ctxMade
           /\ argsRet = "true" => encfsArgs.opts.unmount
           /\ (argsRet = "false" /\ ~encfsArgs.opts.unmount)
                 => (usagePrinted /\ exitStatus = "EXIT_FAILURE")

\* A mount request with both directories, which passes the two path tests
\* and is turned down by the delay mount test.
C10_Witness ==
    /\ argsRet = "false" /\ pc = "done" /\ ~encfsArgs.opts.unmount
    /\ encfsArgs.opts.delayMount /\ ~encfsArgs.opts.mountOnDemand
    /\ encfsArgs.opts.rootDir # <<>> /\ encfsArgs.opts.mountPoint # <<>>
    /\ ~DaemonWithRelativePath(encfsArgs) /\ ~RawDirUnderMountPoint(encfsArgs)

\* A mount request with its two directories came back from processArgs, and
\* neither the path tests nor the directory tests turn it down.
MountRequestOtherwiseValid ==
    /\ argsRet \in {"true", "false"} /\ ~encfsArgs.opts.unmount
    /\ encfsArgs.opts.rootDir # <<>>
    /\ ~DaemonWithRelativePath(encfsArgs) /\ ~RawDirUnderMountPoint(encfsArgs)
    /\ env.rootDirOk /\ env.mountPointOk

NoPasswordSource ==
    /\ encfsArgs.opts.passwordProgram = <<>>
    /\ ~encfsArgs.opts.useStdin /\ ~encfsArgs.opts.useEnv

\* C11 as claimed: mount on demand with no password source makes
\* processArgs return false, and with any source (external program, stdin
\* or environment) it is accepted when the other validations pass.
C11_OnDemandWithAnySource ==
    /\ (argsRet \in {"true", "false"} /\ encfsArgs.opts.mountOnDemand
          /\ NoPasswordSource) => argsRet = "false"
    /\ (MountRequestOtherwiseValid /\ encfsArgs.opts.mountOnDemand
          /\ ~NoPasswordSource) => argsRet = "true"

\* C11 as amended: the source that counts is the external password program
\* alone.  A mount request with mount on demand and no program is turned
\* down with the password program message, stdin or environment password or
\* not; with a program it is accepted when the other validations pass; and
\* without a program processArgs returns true only in unmount mode.
C11_OnDemandNeedsProgram ==
    encfsArgs.opts.mountOnDemand =>
        /\ (argsRet = "true" /\ encfsArgs.opts.passwordProgram = <<>>)
              => encfsArgs.opts.unmount
        /\ (MountRequestOtherwiseValid /\ encfsArgs.opts.passwordProgram = <<>>)
              => /\ argsRet = "false"
                 /\ cerr = <<"Must set password program when using mount-on-demand">>
        /\ (MountRequestOtherwiseValid /\ encfsArgs.opts.passwordProgram # <<>>)
              => argsRet = "true"

\* Mount on demand with the password on stdin and no program: turned down.
C11_Witness ==
    /\ MountRequestOtherwiseValid /\ encfsArgs.opts.mountOnDemand
    /\ encfsArgs.opts.useStdin /\ encfsArgs.opts.passwordProgram = <<>>
    /\ argsRet = "false" /\ pc = "done"

\* processArgs came back from a mount request (two directories or more).
MountRequestValidated ==
    /\ argsRet \in {"true", "false"} /\ ~encfsArgs.opts.unmount
    /\ encfsArgs.opts.rootDir # <<>>

RawDirMessage ==
    "The raw directory may not be a subdirectory of the mount point."

\* C12: in a mount request both paths end with "/", processArgs returns
\* false whenever the mount point is a prefix of (or equal to) the source
\* directory, the raw directory message is written exactly then (the daemon
\* path test apart, which comes first), and a mount point inside the source
\* directory is accepted when nothing else turns the request down.
C12_MountPointPrefixRejected ==
    MountRequestValidated =>
        LET root == encfsArgs.opts.rootDir
            mp == encfsArgs.opts.mountPoint
        IN  /\ root[Len(root)] = "/" /\ mp[Len(mp)] = "/"
            /\ IsPrefix(mp, root) => argsRet = "false"
            /\ (cerr = <<RawDirMessage>>)
                  <=> (IsPrefix(mp, root) /\ ~DaemonWithRelativePath(encfsArgs))
            /\ (IsPrefix(root, mp) /\ root # mp
                  /\ ~DaemonWithRelativePath(encfsArgs)
                  /\ ~DelayMountWithoutOnDemand(encfsArgs)
                  /\ ~OnDemandWithoutProgram(encfsArgs)
                  /\ env.rootDirOk /\ env.mountPointOk) => argsRet = "true"

\* A source directory under the mount point was turned down.
C12_Witness ==
    /\ MountRequestValidated /\ argsRet = "false" /\ pc = "done"
    /\ IsPrefix(encfsArgs.opts.mountPoint, encfsArgs.opts.rootDir)
    /\ encfsArgs.opts.mountPoint # encfsArgs.opts.rootDir
    /\ cerr = <<RawDirMessage>>

DaemonPathMessage ==
    "When specifying daemon mode, you must use absolute paths"

SomePathRelative ==
    \/ encfsArgs.opts.rootDir[1] # "/"
    \/ encfsArgs.opts.mountPoint[1] # "/"

\* C13: a mount request left in daemon mode with a source directory or a
\* mount point that does not begin with "/" is turned down, and by the
\* daemon path test, whatever the later tests (prefix, delay mount, mount on
\* demand, directories) would say; in foreground mode the same paths are not
\* turned down by it, and are accepted when the later tests pass.
C13_DaemonNeedsAbsolutePaths ==
    MountRequestValidated =>
        /\ (encfsArgs.isDaemon /\ SomePathRelative)
              => (argsRet = "false" /\ cerr = <<DaemonPathMessage>>)
        /\ (~encfsArgs.isDaemon \/ ~SomePathRelative)
              => cerr # <<DaemonPathMessage>>
        /\ (~encfsArgs.isDaemon /\ SomePathRelative
              /\ ~RawDirUnderMountPoint(encfsArgs)
              /\ ~DelayMountWithoutOnDemand(encfsArgs)
              /\ ~OnDemandWithoutProgram(encfsArgs)
              /\ env.rootDirOk /\ env.mountPointOk) => argsRet = "true"

\* Daemon mode, relative paths that the prefix test would turn down as
\* well: the message is the daemon path one.
C13_Witness ==
    /\ MountRequestValidated /\ encfsArgs.isDaemon /\ SomePathRelative
    /\ RawDirUnderMountPoint(encfsArgs)
    /\ argsRet = "false" /\ cerr = <<DaemonPathMessage>> /\ pc = "done"

\* The command line is the program name, one of the spellings in spellings,
\* and then only elements that are not options.
UnmountCommandLine(spellings) ==
    /\ Len(argv) >= 2 /\ argv[2] \in spellings
    /\ \A j \in 3..Len(argv) : argv[j] # <<>> /\ argv[j][1] # "-"

UnmountOutcome ==
    /\ argsRet = "true" <=> Len(argv) = 3
    /\ argsRet = "true" =>
          /\ ~encfsArgs.isDaemon /\ encfsArgs.opts.unmount
          /\ encfsArgs.opts.unmountPoint = argv[3]

\* C14: with -u or --unmount, processArgs returns true exactly when one
\* positional argument follows, with daemon mode off and unmountPoint that
\* argument as given, none of the path or directory validations applying.
C14_UnmountTakesOnePath ==
    (argsRet \in {"true", "false"} /\ UnmountCommandLine({Tok_u, Long_unmount}))
        => UnmountOutcome

\* C15: when processArgs returned true in unmount mode, main calls unmountFS
\* once, for the path processArgs took from the command line, and ends with
\* status 0; no context is made, no root acquired, fuse_main is not entered
\* and no monitor thread is created.
C15_UnmountOnly ==
    (argsRet = "true" /\ encfsArgs.opts.unmount) =>
        /\ pc \in {"unmount", "done"}
        /\ unmountCalls = (IF pc = "done" THEN 1 ELSE 0)
        /\ pc = "done" => exitStatus = "EXIT_SUCCESS"
        /\ \E k \in 2..Len(argv) : argv[k] = encfsArgs.opts.unmountPoint
        /\ ~ctxMade /\ rootInfo = "none" /\ loopEnd = "none" /\ ~initCalled
        /\ nThreads = 0 /\ monitorThread = "invalid" /\ supPc = "none"

\* An unmount request was carried out.
C15_Witness ==
    /\ argsRet = "true" /\ encfsArgs.opts.unmount /\ pc = "done"
    /\ unmountCalls = 1 /\ exitStatus = "EXIT_SUCCESS"
    /\ encfsArgs.opts.unmountPoint = Path_b

\* The command line is the program, the elements of flags, and two absolute
\* paths that differ in their first directory; both directories are there.
PlainMountCommandLine(flags) ==
    /\ Len(argv) = 3 + Len(flags)
    /\ SubSeq(argv, 2, 1 + Len(flags)) = flags
    /\ argv[Len(argv) - 1] \in {Path_a, Path_b}
    /\ argv[Len(argv)] \in {Path_a, Path_b}
    /\ argv[Len(argv) - 1] # argv[Len(argv)]
    /\ env.rootDirOk /\ env.mountPointOk

DefaultConfiguration ==
    /\ argsRet = "true"
    /\ encfsArgs.isDaemon /\ encfsArgs.isThreaded /\ ~encfsArgs.isVerbose
    /\ encfsArgs.idleTimeout = 0 /\ encfsArgs.opts.checkKey
    /\ encfsArgs.opts.rootDir = Append(argv[Len(argv) - 1], "/")
    /\ encfsArgs.opts.mountPoint = Append(argv[Len(argv)], "/")

\* The fuse argument vector holds exactly the strings of v, and null after.
FuseArgvIs(v) ==
    /\ encfsArgs.fuseArgc = Len(v)
    /\ \A k \in 0..(MaxFuseArgs - 1) :
          encfsArgs.fuseArgv[k] = IF k < Len(v) THEN <<v[k + 1]>> ELSE <<>>

\* C16: with no option and two valid absolute paths processArgs returns true
\* with the defaults and the vector [program name, mount point/, -o,
\* use_ino, -o, default_permissions]; with --no-default-flags the last four
\* are absent; every successful mount request has the program name in slot 0
\* and the mount point in slot 1.
C16_DefaultsAndVector ==
    /\ (argsRet # "none" /\ PlainMountCommandLine(<<>>)) =>
          /\ DefaultConfiguration
          /\ FuseArgvIs(<<Lit_encfs, Append(argv[3], "/"), Lit_o, Lit_use_ino,
                          Lit_o, Lit_default_permissions>>)
    /\ (argsRet # "none" /\ PlainMountCommandLine(<<Long_no_default_flags>>)) =>
          /\ DefaultConfiguration
          /\ FuseArgvIs(<<Lit_encfs, Append(argv[4], "/")>>)
    /\ (argsRet = "true" /\ ~encfsArgs.opts.unmount) =>
          /\ encfsArgs.fuseArgv[0] = <<Lit_encfs>>
          /\ encfsArgs.fuseArgv[1] = <<encfsArgs.opts.mountPoint>>
          /\ encfsArgs.fuseArgc >= 2

\* The program called by a path, --no-default-flags, two directories.
C16_Witness ==
    /\ PlainMountCommandLine(<<Long_no_default_flags>>) /\ argsRet = "true"
    /\ FuseArgvIs(<<Lit_encfs, <<"/", "b", "/">> >>)

\* The plain command line "encfs /a /b" came back with six fuse arguments.
C16_WitnessDefaults ==
    /\ PlainMountCommandLine(<<>>) /\ argv[1] = Path_prog
    /\ argsRet = "true" /\ encfsArgs.fuseArgc = 6

NoMountAttempted ==
    /\ ~ctxMade /\ rootInfo = "none" /\ loopEnd = "none" /\ ~initCalled
    /\ nThreads = 0 /\ supPc = "none"

\* C17 as claimed: when processArgs returned false, or no argument was
\* given, main has printed the usage text and ended with EXIT_FAILURE, and
\* no mount was attempted.
C17_FailureMeansUsage ==
    (pc = "done" /\ (argsRet = "false" \/ Len(argv) = 1)) =>
        /\ usagePrinted /\ exitStatus = "EXIT_FAILURE"
        /\ NoMountAttempted

\* C17 as amended: the usage text is printed once init_encfs_pidinfo has
\* succeeded; when it fails main ends with EXIT_FAILURE before looking at
\* the arguments, with its own message and without the usage text.  In every
\* case no mount is attempted and the status is not success.
C17_FailureMeansUsageAfterPidInfo ==
    /\ (pc = "done" /\ (argsRet = "false" \/ Len(argv) = 1)) =>
          /\ exitStatus = "EXIT_FAILURE"
          /\ NoMountAttempted /\ unmountCalls = 0
          /\ usagePrinted <=> cerr # <<"Init encfs pid info failed">>
    /\ argsRet = "false" => (pc = "done" /\ usagePrinted)
    /\ argsRet = "assert" =>
          (NoMountAttempted /\ unmountCalls = 0 /\ exitStatus # "EXIT_SUCCESS")

\* A mount request turned down by a validation: usage, EXIT_FAILURE.
C17_Witness ==
    /\ pc = "done" /\ argsRet = "false" /\ usagePrinted
    /\ exitStatus = "EXIT_FAILURE" /\ encfsArgs.opts.rootDir # <<>>
    /\ cerr = <<"Unable to locate mount point, aborting.">>

\* encfs_init ran with an idle timeout and pthread_create failed in it.
MonitorCreateFailed ==
    initCalled /\ MonitorWanted(encfsArgs) /\ nThreads = 0

\* C18: when pthread_create fails in encfs_init the mount goes on without
\* idle monitoring: usageAndUnmount is never called, and the process ends
\* with the status that fuse_main's way of ending gives (success exactly
\* when it returned 0, EXIT_FAILURE otherwise).
C18_CreateFailureNotFatal ==
    MonitorCreateFailed =>
        /\ idleCount = 0 /\ supPc = "none" /\ ~fsUnmounted
        /\ pc # "terminated"
        /\ exitStatus # "none" =>
              /\ exitStatus \in {"EXIT_SUCCESS", "EXIT_FAILURE"}
              /\ exitStatus = "EXIT_SUCCESS" <=> (loopEnd = "returned" /\ res = 0)

\* Elements that getopt_long answers with '?': a long name and a short
\* letter it does not know, a long abbreviation that is ambiguous, and an
\* argument given to a long option that takes none.
UnknownFlags == {Tok_bogus, Tok_x, Tok_k, Tok_no, Tok_verbose_eq}

\* Options that take an argument, put last so that the argument is missing.
ArgumentlessFlags == {Tok_i, Long_idle, Tok_o, Long_extpass}

\* argv with flag put right after the program name.
WithFlagFirst(flag) == <<argv[1], flag>> \o SubSeq(argv, 2, Len(argv))

NoDashDash == \A k \in 1..Len(argv) : argv[k] # Tok_dashdash

\* C19: an element getopt_long does not know, or an option left without its
\* argument, never changes what processArgs answers: for every command line
\* on which it returns true, the same line with such an element added gives
\* true again with the same configuration and the same fuse arguments.
C19_UnknownFlagsIgnored ==
    argsRet = "true" =>
        /\ \A flag \in UnknownFlags :
              processArgs(WithFlagFirst(flag), env)
                 = [ret |-> "true", args |-> encfsArgs, msg |-> ""]
        /\ NoDashDash =>
              \A flag \in ArgumentlessFlags :
                 processArgs(Append(argv, flag), env)
                    = [ret |-> "true", args |-> encfsArgs, msg |-> ""]

\* A command line that itself holds an unknown long option and an unknown
\* short one was accepted as a mount request.
C19_Witness ==
    /\ argsRet = "true" /\ ~encfsArgs.opts.unmount
    /\ \E k \in 2..Len(argv) : argv[k] = Tok_bogus
    /\ \E k \in 2..Len(argv) : argv[k] = Tok_k
    /\ encfsArgs.opts.checkKey

\* How many times line is in the sequence lines.
Count(lines, line) == Cardinality({k \in 1..Len(lines) : lines[k] = line})

\* C20: with annotation, the start line is written before fuse_main is
\* called and the end line once it has ended, by a return or by an
\* exception: each start line gets exactly one end line.  Without
\* annotation neither is written.
C20_StartEndPaired ==
    LET starts == Count(cerr, "$STATUS$ fuse_main_start")
        ends == Count(cerr, "$STATUS$ fuse_main_end")
    IN  /\ ends <= starts /\ starts <= 1
        /\ ~encfsArgs.opts.annotate => starts = 0
        /\ (encfsArgs.opts.annotate /\ pc = "fuse_main") => (starts = 1 /\ ends = 0)
        /\ (encfsArgs.opts.annotate /\ loopEnd # "none") =>
              cerr = <<"$STATUS$ fuse_main_start", "$STATUS$ fuse_main_end">>

\* In every state: an idle check is about to be made only by a monitor that
\* holds the mutex, and a monitor whose check unmounted is on its way out.
CheckUnderMutex ==
    /\ supPc \in {"test", "check", "timedwait", "unlock"} => wakeupMutex = "monitor"
    /\ unmountres => (supPc \in {"unlock", "done"} /\ fsUnmounted)

\* In every step: the check is reached only from the test of running, which
\* is reached only from taking the mutex (at the start or after the wait);
\* a check that did not unmount goes to the timed wait; and once a check
\* has unmounted, no check is made again (the idle count and unmountres
\* stay as they are).
CheckSteps ==
    /\ supPc' = "check" => supPc \in {"check", "test"}
    /\ supPc' = "test" => supPc \in {"test", "lock", "woken"}
    /\ (supPc = "check" /\ supPc' # "check") =>
          /\ supPc' = (IF unmountres' THEN "unlock" ELSE "timedwait")
          /\ wakeupMutex' = "monitor"
    /\ supPc = "timedwait" => supPc' \in {"timedwait", "waiting"}
    /\ unmountres => (unmountres' /\ idleCount' = idleCount /\ supPc' # "check")
    /\ (fsUnmounted' /\ ~fsUnmounted) => (supPc = "check" /\ unmountres')

\* C21: the monitor calls usageAndUnmount only while it holds wakeupMutex
\* and right after reading running as true; when a check reports an
\* unmount the monitor leaves without waiting and checks no more (at most
\* one unmount); otherwise it goes to the timed wait and tests running again
\* before the next check.
C21_CheckThenWaitOrLeave == [](CheckUnderMutex) /\ [][CheckSteps]_vars

\* The monitor made several checks, the last one unmounted, and it ended.
C21_Witness ==
    /\ supPc = "done" /\ unmountres /\ fsUnmounted /\ idleCount > 1
    /\ wakeupMutex # "monitor"

\* The pairs of spellings of one flag.
FlagPairs ==
    {<<Lit_f, Tok_foreground>>, <<Tok_v, Long_verbose>>, <<Tok_i, Long_idle>>,
     <<Tok_c, Long_config>>, <<Tok_u, Long_unmount>>, <<Tok_k, Long_anykey>>,
     <<Tok_D, Long_forcedecode>>, <<Tok_r, Long_reverse>>,
     <<Tok_R, Long_reversewrite>>, <<Tok_P, Long_public>>,
     <<Tok_p, Long_extpass>>, <<Tok_S, Long_stdinpass>>,
     <<Tok_N, Long_no_default_flags>>, <<Tok_m, Long_ondemand>>,
     <<Tok_M, Long_delaymount>>, <<Tok_t, Long_syslogtag>>}

\* argv with its first element after the program name replaced by flag.
WithFirstFlag(flag) == <<argv[1], flag>> \o SubSeq(argv, 3, Len(argv))

\* What processArgs gave on argv, as the record it returns.
ProcessArgsGave ==
    [ret |-> argsRet, args |-> encfsArgs,
     msg |-> IF cerr = <<>> THEN "" ELSE cerr[1]]

\* C22: for each pair, a command line that begins with the short spelling
\* gets from processArgs what the same line with the long spelling gets.
C22_ShortAndLongAgree ==
    (argsRet # "none" /\ Len(argv) >= 2) =>
        \A p \in FlagPairs :
            argv[2] = p[1] => processArgs(WithFirstFlag(p[2]), env) = ProcessArgsGave

\* The string is one of the fuse arguments.
HasFuseArg(arg) ==
    \E k \in 0..(encfsArgs.fuseArgc - 1) : encfsArgs.fuseArgv[k] = <<arg>>

\* processArgs ran on a command line whose first option is flag, with none
\* of the cache options after it.
FirstOptionIs(flag) ==
    /\ argsRet # "none" /\ Len(argv) >= 2 /\ argv[2] = flag
    /\ \A k \in 3..Len(argv) :
          argv[k] \notin {Long_nocache, Long_nodatacache, Long_noattrcache}

\* C23 as claimed: --nocache, --nodatacache and --noattrcache each put
\* -oattr_timeout=0 and -oentry_timeout=0 among the fuse arguments.
C23_EveryVariantDisablesKernelCaches ==
    \A flag \in {Long_nocache, Long_nodatacache, Long_noattrcache} :
        FirstOptionIs(flag) =>
            (HasFuseArg(Lit_attr_timeout) /\ HasFuseArg(Lit_entry_timeout))

\* C23 as amended: --nocache and --noattrcache push -oattr_timeout=0 and
\* then -oentry_timeout=0; --nodatacache pushes neither.  --nocache and
\* --nodatacache set noCache, --noattrcache does not.
C23_AttrVariantsDisableKernelCaches ==
    /\ \A flag \in {Long_nocache, Long_noattrcache} :
          FirstOptionIs(flag) =>
              /\ encfsArgs.fuseArgv[2] = <<Lit_attr_timeout>>
              /\ encfsArgs.fuseArgv[3] = <<Lit_entry_timeout>>
              /\ encfsArgs.opts.noCache <=> flag = Long_nocache
    /\ FirstOptionIs(Long_nodatacache) =>
          /\ encfsArgs.opts.noCache
          /\ ~HasFuseArg(Lit_attr_timeout) /\ ~HasFuseArg(Lit_entry_timeout)

\* A mount request with --nodatacache was accepted with the default fuse
\* arguments only.
C23_Witness ==
    /\ FirstOptionIs(Long_nodatacache) /\ argsRet = "true"
    /\ encfsArgs.opts.noCache /\ encfsArgs.fuseArgc = 6

\* A mount request with --noattrcache was accepted with the two flags.
C23_WitnessAttr ==
    /\ FirstOptionIs(Long_noattrcache) /\ argsRet = "true"
    /\ ~encfsArgs.opts.noCache /\ encfsArgs.fuseArgc = 8

\* C24: main stops and joins the monitor thread only when one was created:
\* while main is between line 835 and the return of pthread_join the thread
\* handle is valid, and a process whose monitor thread was never created
\* does not end in pthread_join.
C24_JoinOnlyCreatedThread ==
    /\ pc \in {"lock", "signal", "unlock", "join"} => monitorThread = "valid"
    /\ exitStatus = "signal" => monitorThread = "valid"

\* C25: when processArgs returns true for a mount request, 2 <= fuseArgc <=
\* MaxFuseArgs, every slot below fuseArgc holds a string, and the slot at
\* index fuseArgc is inside the array and null.
C25_FuseArgvNullTerminated ==
    (argsRet = "true" /\ ~encfsArgs.opts.unmount) =>
        /\ 2 <= encfsArgs.fuseArgc /\ encfsArgs.fuseArgc <= MaxFuseArgs
        /\ \A k \in 0..(encfsArgs.fuseArgc - 1) :
              encfsArgs.fuseArgv[k] # NullPtr
        /\ encfsArgs.fuseArgc \in DOMAIN encfsArgs.fuseArgv
        /\ encfsArgs.fuseArgv[encfsArgs.fuseArgc] = NullPtr

\* C26: the monitor thread never ends while it holds wakeupMutex, and it
\* never blocks main for ever: when the thread's own idle check has
\* unmounted the file system and fuse_main has ended, main's lock, signal,
\* unlock and join go through and main reaches the release of the root.
C26_MonitorNeverBlocksMain ==
    /\ [](supPc \in {"none", "start", "done"} => wakeupMutex # "monitor")
    /\ (unmountres /\ pc = "teardown") ~> (pc = "release")

\* The monitor thread unmounted the file system itself, left its loop by
\* the break, and main's join returned.
C26_Witness ==
    /\ pc = "release" /\ unmountres /\ fsUnmounted /\ supPc = "done"
    /\ wakeupMutex = "free" /\ loopEnd = "returned"
    /\ order = <<"running = false", "signal", "join">>
=============================================================================
